---- MODULE Spec2Model ----
(***************************************************************************)
(* Model of the A4 poster tiler: tile_to_A4_2x2.py (a4_pixels,             *)
(* resize_to_poster, main) and the fixed-grid script 2x2.py                *)
(* (split_image_to_a4).                                                    *)
(*                                                                         *)
(* Images are modelled by their geometry.  An image is a record            *)
(*   [w, h      size in pixels                                             *)
(*    vis       the rectangle of the image whose pixels come from inside   *)
(*              the image it was cropped from (the rest is crop padding)   *)
(*    px, py    where the origin of the resized source sits in the image   *)
(*    rw, rh    size of the resized source it shows (0, 0 for none)]       *)
(* and PixelAt gives the content of each pixel: a pixel of the resized     *)
(* source, the background fill of Image.new, or crop padding.              *)
(***************************************************************************)
EXTENDS Integers, Sequences, FiniteSets, TLC

VARIABLES pc, args, img, target, fit, a4, poster, tiles, files, parts

vars == <<pc, args, img, target, fit, a4, poster, tiles, files, parts>>

(***************************************************************************)
(* Bounds of the model.                                                    *)
(***************************************************************************)
MaxSrc == 5
MaxTarget == 5
MaxDpi == 2
MaxMainSrc == 3

(***************************************************************************)
(* Program constants.                                                      *)
(***************************************************************************)
\* A4_MM = (210.0, 297.0), in tenths of a millimetre
A4_MM == <<2100, 2970>>
\* mm_to_inches divides by 25.4: 254 tenths of a millimetre per inch
TenthsPerInch == 254
\* --dpi default
DefaultDpi == 300
\* range(2) rows and range(2) columns
GridRows == 2
GridCols == 2

(***************************************************************************)
(* Arithmetic.                                                             *)
(***************************************************************************)
\* Python's round() on the exact quotient n / d, d > 0: nearest integer,
\* ties to the even neighbour.
RoundHalfEven(n, d) ==
  LET q == n \div d
      r == n % d
  IN  IF 2 * r < d THEN q
      ELSE IF 2 * r > d THEN q + 1
      ELSE IF q % 2 = 0 THEN q ELSE q + 1

RECURSIVE IsPowerOfTwo(_)
IsPowerOfTwo(d) ==
  IF d = 1 THEN TRUE
  ELSE IF d % 2 = 1 THEN FALSE
  ELSE IsPowerOfTwo(d \div 2)

RECURSIVE Gcd(_, _)
Gcd(a, b) == IF b = 0 THEN a ELSE Gcd(b, a % b)

Abs(n) == IF n < 0 THEN -n ELSE n

\* The quotient n / d is stored exactly in a binary float when its reduced
\* denominator is a power of two (the magnitudes here are far below 2^53).
ExactQuotient(n, d) == IsPowerOfTwo(d \div Gcd(Abs(n), d))

\* int(round(m * scale)) where scale is the float n / d.  Away from a tie the
\* float error cannot change the nearest integer.  At a tie with an exact
\* scale the product is exact and rounds half to even; at a tie with an
\* inexact scale the product lands on either side of the tie depending on the
\* representation error, so both neighbours are possible results.
RoundScaled(m, scale) ==
  LET n == scale[1]
      d == scale[2]
      q == (m * n) \div d
      r == (m * n) % d
  IN  IF 2 * r = d /\ ~ExactQuotient(n, d) THEN {q, q + 1}
      ELSE {RoundHalfEven(m * n, d)}

\* a4_pixels with int() truncation in place of round()
a4_pixels_truncated(dpi) ==
  << (A4_MM[1] * dpi) \div TenthsPerInch, (A4_MM[2] * dpi) \div TenthsPerInch >>

\* mm_to_inches(A4_MM[i]) * dpi, rounded
a4_pixels(dpi) ==
  << RoundHalfEven(A4_MM[1] * dpi, TenthsPerInch),
     RoundHalfEven(A4_MM[2] * dpi, TenthsPerInch) >>

(***************************************************************************)
(* Images.                                                                 *)
(***************************************************************************)
Rect(x0, y0, x1, y1) == [x0 |-> x0, y0 |-> y0, x1 |-> x1, y1 |-> y1]

Max2(a, b) == IF a >= b THEN a ELSE b
Min2(a, b) == IF a <= b THEN a ELSE b

Intersect(r, s) ==
  Rect(Max2(r.x0, s.x0), Max2(r.y0, s.y0), Min2(r.x1, s.x1), Min2(r.y1, s.y1))

Shift(r, dx, dy) == Rect(r.x0 + dx, r.y0 + dy, r.x1 + dx, r.y1 + dy)

InRect(r, x, y) == r.x0 <= x /\ x < r.x1 /\ r.y0 <= y /\ y < r.y1

NoImage ==
  [w |-> 0, h |-> 0, vis |-> Rect(0, 0, 0, 0), px |-> 0, py |-> 0, rw |-> 0, rh |-> 0]

\* A source image as Image.open returns it: it shows itself.
SourceImage(w, h) ==
  [w |-> w, h |-> h, vis |-> Rect(0, 0, w, h), px |-> 0, py |-> 0, rw |-> w, rh |-> h]

\* Image.resize refuses a size below 1 on either axis.
ResizeFails(new_w, new_h) == new_w < 1 \/ new_h < 1

\* img.resize((new_w, new_h), Image.LANCZOS): every pixel is resampled from
\* the source.
Resize(im, new_w, new_h) ==
  [w |-> new_w, h |-> new_h, vis |-> Rect(0, 0, new_w, new_h),
   px |-> 0, py |-> 0, rw |-> new_w, rh |-> new_h]

\* image.crop((left, top, right, bottom)): the result has the size of the
\* box; pixels of the box outside the image are padding.
Crop(im, left, top, right, bottom) ==
  [w |-> right - left, h |-> bottom - top,
   vis |-> Intersect(Shift(im.vis, -left, -top),
                     Rect(0, 0, right - left, bottom - top)),
   px |-> im.px - left, py |-> im.py - top, rw |-> im.rw, rh |-> im.rh]

\* Image.new("RGB", (tw, th), (255, 255, 255))
NewCanvas(tw, th) ==
  [w |-> tw, h |-> th, vis |-> Rect(0, 0, tw, th), px |-> 0, py |-> 0, rw |-> 0, rh |-> 0]

\* bg.paste(img_resized, (left, top)): the canvas keeps its size, the pasted
\* image is clipped to it.
Paste(bg, im, left, top) ==
  [w |-> bg.w, h |-> bg.h, vis |-> bg.vis,
   px |-> left, py |-> top, rw |-> im.w, rh |-> im.h]

\* The content of pixel (x, y) of an image.
PixelAt(im, x, y) ==
  IF ~InRect(im.vis, x, y) THEN <<"pad", 0, 0>>
  ELSE IF InRect(Rect(im.px, im.py, im.px + im.rw, im.py + im.rh), x, y)
       THEN <<"src", x - im.px, y - im.py>>
       ELSE <<"bg", 0, 0>>

Pixels(im) == (0 .. im.w - 1) \X (0 .. im.h - 1)

(***************************************************************************)
(* resize_to_poster.                                                       *)
(***************************************************************************)
\* the cover scale taken with min in place of max
CoverScale_min(w, h, tw, th) == IF tw * h <= th * w THEN <<tw, w>> ELSE <<th, h>>

\* scale = max(tw / img.width, th / img.height), kept as a fraction
CoverScale(w, h, tw, th) == IF tw * h >= th * w THEN <<tw, w>> ELSE <<th, h>>

\* the contain scale taken with max in place of min
ContainScale_max(w, h, tw, th) == IF tw * h >= th * w THEN <<tw, w>> ELSE <<th, h>>

\* scale = min(tw / img.width, th / img.height), kept as a fraction
ContainScale(w, h, tw, th) == IF tw * h <= th * w THEN <<tw, w>> ELSE <<th, h>>

\* (new_w, new_h) = (int(round(img.width * scale)), int(round(img.height * scale)))
ScaledSizes(w, h, scale) == RoundScaled(w, scale) \X RoundScaled(h, scale)

\* the crop offset rounded up in place of floor division
CoverOffset_ceil(new, t) == (new - t + 1) \div 2

\* left = (new_w - tw) // 2, top = (new_h - th) // 2
CoverOffset(new, t) == (new - t) \div 2

\* left = (tw - new_w) // 2, top = (th - new_h) // 2
ContainOffset(new, t) == (t - new) \div 2

FitResult(outcome, calls, scale, new, left, top, image) ==
  [outcome |-> outcome, calls |-> calls, scale |-> scale, new_w |-> new[1],
   new_h |-> new[2], left |-> left, top |-> top, image |-> image]

NoFit == FitResult("none", <<>>, <<0, 1>>, <<0, 0>>, 0, 0, NoImage)

CoverFit(im, tw, th, new) ==
  LET left == CoverOffset(new[1], tw)
      top  == CoverOffset(new[2], th)
      scale == CoverScale(im.w, im.h, tw, th)
  IN  IF ResizeFails(new[1], new[2])
      THEN FitResult("ResizeError", <<"resize">>, scale, new, 0, 0, NoImage)
      ELSE FitResult("returned", <<"resize", "crop">>, scale, new, left, top,
                     Crop(Resize(im, new[1], new[2]), left, top, left + tw, top + th))

ContainFit(im, tw, th, new) ==
  LET left == ContainOffset(new[1], tw)
      top  == ContainOffset(new[2], th)
      scale == ContainScale(im.w, im.h, tw, th)
  IN  IF ResizeFails(new[1], new[2])
      THEN FitResult("ResizeError", <<"resize">>, scale, new, 0, 0, NoImage)
      ELSE FitResult("returned", <<"resize", "new", "paste">>, scale, new, left, top,
                     Paste(NewCanvas(tw, th), Resize(im, new[1], new[2]), left, top))

\* resize_to_poster whose last branch is a plain else: any other mode is
\* treated as 'contain'
resize_to_poster_else_contain(im, tw, th, mode) ==
  IF mode = "cover"
  THEN { CoverFit(im, tw, th, new) :
           new \in ScaledSizes(im.w, im.h, CoverScale(im.w, im.h, tw, th)) }
  ELSE { ContainFit(im, tw, th, new) :
           new \in ScaledSizes(im.w, im.h, ContainScale(im.w, im.h, tw, th)) }

\* The possible results of resize_to_poster(img, (tw, th), mode).
resize_to_poster(im, tw, th, mode) ==
  IF mode = "cover"
  THEN { CoverFit(im, tw, th, new) :
           new \in ScaledSizes(im.w, im.h, CoverScale(im.w, im.h, tw, th)) }
  ELSE IF mode = "contain"
  THEN { ContainFit(im, tw, th, new) :
           new \in ScaledSizes(im.w, im.h, ContainScale(im.w, im.h, tw, th)) }
  ELSE { FitResult("ModeError", <<>>, <<0, 1>>, <<0, 0>>, 0, 0, NoImage) }

(***************************************************************************)
(* The fitter called on its own: any source, any target, any mode.         *)
(***************************************************************************)
Modes == {"cover", "contain", "stretch"}

NoArgs == [script |-> "fit", dpi |-> 0, mode |-> "cover", prefix |-> "tile", landscape |-> FALSE]

InitFit ==
  /\ pc = "fit_call"
  /\ \E w \in 1 .. MaxSrc, h \in 1 .. MaxSrc : img = SourceImage(w, h)
  /\ target \in (0 .. MaxTarget) \X (0 .. MaxTarget)
  /\ \E m \in Modes : args = [NoArgs EXCEPT !.mode = m]
  /\ fit = NoFit
  /\ a4 = <<0, 0>>
  /\ poster = NoImage
  /\ tiles = <<>>
  /\ files = <<>>
  /\ parts = {}

FitCall ==
  /\ pc = "fit_call"
  /\ \E r \in resize_to_poster(img, target[1], target[2], args.mode) : fit' = r
  /\ pc' = "fit_done"
  /\ UNCHANGED <<args, img, target, a4, poster, tiles, files, parts>>

NextFit == FitCall

SpecFit == InitFit /\ [][NextFit]_vars

(***************************************************************************)
(* tile_to_A4_2x2.main and the script 2x2.py.                              *)
(***************************************************************************)
\* --mode choices
ModeChoices == {"cover", "contain"}

\* (3508, 2480) if landscape else (2480, 3508)
SplitA4(landscape) == IF landscape THEN <<3508, 2480>> ELSE <<2480, 3508>>

\* f"{args.prefix}_r{row+1}c{col+1}" + extension
TileName(prefix, row, col, ext) ==
  prefix \o "_r" \o ToString(row + 1) \o "c" \o ToString(col + 1) \o ext

\* f"{output_prefix}_{j+1}{i+1}.jpg"
SplitName(prefix, i, j) ==
  prefix \o "_" \o ToString(j + 1) \o ToString(i + 1) \o ".jpg"

ReadmeName == "README.txt"

\* the slicing loops nested the other way round: columns outside, rows inside
MainCell_column_major(k) == [row |-> k % GridRows, col |-> k \div GridRows]

\* for row in range(2): for col in range(2): the k-th cell visited, k from 0
MainCell(k) == [row |-> k \div GridCols, col |-> k % GridCols]

\* for i in range(2): for j in range(2): i is the column, j the row
SplitCell(k) == [row |-> k % GridRows, col |-> k \div GridRows]

\* the tile box with row and column exchanged in the offsets
TileBox_swapped(cell, cw, ch) ==
  Rect(cell.row * cw, cell.col * ch, cell.row * cw + cw, cell.col * ch + ch)

\* left = col * a4_w_px, top = row * a4_h_px, right = left + a4_w_px,
\* bottom = top + a4_h_px
TileBox(cell, cw, ch) ==
  Rect(cell.col * cw, cell.row * ch, cell.col * cw + cw, cell.row * ch + ch)

Tile(cell, im, cw, ch) ==
  LET b == TileBox(cell, cw, ch)
  IN  [row |-> cell.row, col |-> cell.col, box |-> b,
       image |-> Crop(im, b.x0, b.y0, b.x1, b.y1)]

\* the tiles list built by main's slicing loop
SliceTiles(im, cw, ch) ==
  [k \in 1 .. GridRows * GridCols |-> Tile(MainCell(k - 1), im, cw, ch)]

DpiValues == (-1 .. MaxDpi) \cup {DefaultDpi}

MainSources ==
  {SourceImage(w, h) : w \in 1 .. MaxMainSrc, h \in 1 .. MaxMainSrc}
    \cup {SourceImage(1000, 1500)}

Prefixes == {"tile", "p"}

Init ==
  /\ \/ /\ pc = "parse_args"
        /\ \E d \in DpiValues, m \in Modes, p \in Prefixes :
             args = [script |-> "tile_to_A4_2x2", dpi |-> d, mode |-> m,
                     prefix |-> p, landscape |-> FALSE]
     \/ /\ pc = "split_open"
        /\ \E l \in BOOLEAN :
             args = [script |-> "2x2", dpi |-> DefaultDpi, mode |-> "cover",
                     prefix |-> "a4_part", landscape |-> l]
  /\ img \in MainSources
  /\ target = <<0, 0>>
  /\ fit = NoFit
  /\ a4 = <<0, 0>>
  /\ poster = NoImage
  /\ tiles = <<>>
  /\ files = <<>>
  /\ parts = {}

\* parser.parse_args(): argparse rejects a --mode outside the choices
ParseArgs ==
  /\ pc = "parse_args"
  /\ pc' = IF args.mode \in ModeChoices THEN "makedirs" ELSE "usage_error"
  /\ UNCHANGED <<args, img, target, fit, a4, poster, tiles, files, parts>>

\* os.makedirs(args.outdir, exist_ok=True)
MakeDirs ==
  /\ pc = "makedirs"
  /\ \/ pc' = "sizes"
     \/ pc' = "aborted"
  /\ UNCHANGED <<args, img, target, fit, a4, poster, tiles, files, parts>>

\* a4_w_px, a4_h_px = a4_pixels(args.dpi); poster = twice that on each axis
ComputeSizes ==
  /\ pc = "sizes"
  /\ a4' = a4_pixels(args.dpi)
  /\ target' = <<a4'[1] * 2, a4'[2] * 2>>
  /\ pc' = "open"
  /\ UNCHANGED <<args, img, fit, poster, tiles, files, parts>>

\* img = Image.open(args.input), which fails on an unreadable file
OpenImage ==
  /\ pc = "open"
  /\ \/ pc' = "fit"
     \/ pc' = "aborted"
  /\ UNCHANGED <<args, img, target, fit, a4, poster, tiles, files, parts>>

\* poster = resize_to_poster(img, (poster_w_px, poster_h_px), args.mode)
FitPoster ==
  /\ pc = "fit"
  /\ \E r \in resize_to_poster(img, target[1], target[2], args.mode) :
       /\ fit' = r
       /\ poster' = r.image
       /\ pc' = IF r.outcome = "returned" THEN "slice" ELSE "aborted"
  /\ UNCHANGED <<args, img, target, a4, tiles, files, parts>>

\* the slicing loop
Slice ==
  /\ pc = "slice"
  /\ tiles' = SliceTiles(poster, a4[1], a4[2])
  /\ pc' = "save"
  /\ UNCHANGED <<args, img, target, fit, a4, poster, files, parts>>

\* the file the saving loop writes after n files: PNG then PDF of each tile
NextExport(prefix, ts, n) ==
  LET t == ts[(n \div 2) + 1]
  IN  TileName(prefix, t.row, t.col, IF n % 2 = 0 THEN ".png" ELSE ".pdf")

\* save_tile_png / save_tile_pdf of the next tile in the list; a failing save
\* ends the run and may leave the file it was writing
SaveTile ==
  /\ pc = "save"
  /\ Len(files) < 2 * Len(tiles)
  /\ LET name == NextExport(args.prefix, tiles, Len(files))
     IN  \/ /\ files' = Append(files, name)
            /\ parts' = parts
            /\ pc' = IF Len(files') = 2 * Len(tiles) THEN "readme" ELSE "save"
         \/ /\ files' = Append(files, name)
            /\ parts' = parts \cup {name}
            /\ pc' = "aborted"
         \/ /\ files' = files
            /\ parts' = parts
            /\ pc' = "aborted"
  /\ UNCHANGED <<args, img, target, fit, a4, poster, tiles>>

\* open(readme_path, "w") and f.write(...)
WriteReadme ==
  /\ pc = "readme"
  /\ \/ /\ files' = Append(files, ReadmeName)
        /\ parts' = parts
        /\ pc' = "print"
     \/ /\ files' = Append(files, ReadmeName)
        /\ parts' = parts \cup {ReadmeName}
        /\ pc' = "aborted"
     \/ /\ files' = files
        /\ parts' = parts
        /\ pc' = "aborted"
  /\ UNCHANGED <<args, img, target, fit, a4, poster, tiles>>

\* the closing print statements
PrintDone ==
  /\ pc = "print"
  /\ pc' = "done"
  /\ UNCHANGED <<args, img, target, fit, a4, poster, tiles, files, parts>>

\* 2x2.py: img = Image.open(image_path)
SplitOpen ==
  /\ pc = "split_open"
  /\ \/ /\ pc' = "split_resize"
        /\ a4' = SplitA4(args.landscape)
     \/ /\ pc' = "aborted"
        /\ a4' = a4
  /\ UNCHANGED <<args, img, target, fit, poster, tiles, files, parts>>

\* 2x2.py: img = img.resize((a4_width * 2, a4_height * 2), Image.LANCZOS)
SplitResize ==
  /\ pc = "split_resize"
  /\ target' = <<a4[1] * 2, a4[2] * 2>>
  /\ poster' = Resize(img, target'[1], target'[2])
  /\ pc' = "split_crop"
  /\ UNCHANGED <<args, img, fit, a4, tiles, files, parts>>

\* 2x2.py: one iteration of the nested loop: crop, then crop.save(...)
SplitCropSave ==
  /\ pc = "split_crop"
  /\ LET cell == SplitCell(Len(tiles))
         name == SplitName(args.prefix, cell.col, cell.row)
     IN  /\ tiles' = Append(tiles, Tile(cell, poster, a4[1], a4[2]))
         /\ \/ /\ files' = Append(files, name)
               /\ parts' = parts
               /\ pc' = IF Len(tiles') = GridRows * GridCols THEN "done" ELSE "split_crop"
            \/ /\ files' = Append(files, name)
               /\ parts' = parts \cup {name}
               /\ pc' = "aborted"
            \/ /\ files' = files
               /\ parts' = parts
               /\ pc' = "aborted"
  /\ UNCHANGED <<args, img, target, fit, a4, poster>>

Next ==
  \/ ParseArgs
  \/ MakeDirs
  \/ ComputeSizes
  \/ OpenImage
  \/ FitPoster
  \/ Slice
  \/ SaveTile
  \/ WriteReadme
  \/ PrintDone
  \/ SplitOpen
  \/ SplitResize
  \/ SplitCropSave

Spec == Init /\ [][Next]_vars

(***************************************************************************)
(* Properties of the fitter, checked under SpecFit.                        *)
(***************************************************************************)
FitDone == pc = "fit_done"

ValidMode == args.mode \in ModeChoices

ValidTarget == target[1] >= 1 /\ target[2] >= 1

\* C1: for every source of at least 1 x 1, every target of at least 1 x 1 and
\* both policies, resize_to_poster returns an image that is exactly tw wide
\* and th high.
C1_ExactTargetSize ==
  (FitDone /\ ValidMode /\ ValidTarget) =>
    /\ fit.outcome = "returned"
    /\ fit.image.w = target[1]
    /\ fit.image.h = target[2]

\* C3: a policy other than 'cover' or 'contain' makes the fitter fail with the
\* invalid-policy error before any resize, crop or paste has run and before
\* any file is written.
C3_InvalidPolicyFirst ==
  (FitDone /\ ~ValidMode) =>
    /\ fit.outcome = "ModeError"
    /\ fit.calls = <<>>
    /\ fit.image = NoImage
    /\ files = <<>>

C3_Witness == FitDone /\ args.mode = "stretch" /\ fit.outcome = "ModeError"

\* C4: a target width or height <= 0 makes the fitter fail with an
\* invalid-dimensions error, for both policies, before it computes a scale,
\* resizes, crops or pastes.
C4_InvalidDimensions ==
  (FitDone /\ ValidMode /\ (target[1] <= 0 \/ target[2] <= 0)) =>
    /\ fit.outcome = "DimensionError"
    /\ fit.calls = <<>>

\* C5: in 'cover' mode the scaled size is at least the target on both axes,
\* the crop offsets (new - target) // 2 are >= 0, the crop box lies inside
\* the scaled image, and every pixel of the output comes from the source.
C5_CoverNoPadding ==
  (FitDone /\ args.mode = "cover" /\ ValidTarget) =>
    LET tw == target[1]
        th == target[2]
    IN  /\ fit.new_w >= tw
        /\ fit.new_h >= th
        /\ fit.outcome = "returned"
        /\ fit.left = (fit.new_w - tw) \div 2
        /\ fit.top = (fit.new_h - th) \div 2
        /\ fit.left >= 0
        /\ fit.top >= 0
        /\ fit.left + tw <= fit.new_w
        /\ fit.top + th <= fit.new_h
        /\ \A p \in Pixels(fit.image) :
             PixelAt(fit.image, p[1], p[2]) = <<"src", p[1] + fit.left, p[2] + fit.top>>

C5_Witness ==
  /\ FitDone /\ args.mode = "cover" /\ ValidTarget
  /\ fit.outcome = "returned"
  /\ fit.new_h > target[2]
  /\ fit.top > 0

\* C6: in 'contain' mode the scaled size is at most the target on both axes
\* and equal on one, the paste offsets (target - new) // 2 are >= 0, the
\* pasted region is inside the canvas, background shows only outside it, and
\* the right/bottom margin exceeds the left/top margin by 0 or 1.
C6_ContainInsideCanvas ==
  (FitDone /\ args.mode = "contain" /\ ValidTarget) =>
    LET tw == target[1]
        th == target[2]
        pasted == Rect(fit.left, fit.top, fit.left + fit.new_w, fit.top + fit.new_h)
    IN  /\ fit.new_w <= tw
        /\ fit.new_h <= th
        /\ fit.new_w = tw \/ fit.new_h = th
        /\ fit.outcome = "returned" =>
             /\ fit.left = (tw - fit.new_w) \div 2
             /\ fit.top = (th - fit.new_h) \div 2
             /\ fit.left >= 0
             /\ fit.top >= 0
             /\ pasted.x1 <= tw
             /\ pasted.y1 <= th
             /\ (tw - pasted.x1) - fit.left \in {0, 1}
             /\ (th - pasted.y1) - fit.top \in {0, 1}
             /\ \A p \in Pixels(fit.image) :
                  PixelAt(fit.image, p[1], p[2]) =
                    IF InRect(pasted, p[1], p[2])
                    THEN <<"src", p[1] - fit.left, p[2] - fit.top>>
                    ELSE <<"bg", 0, 0>>

C6_Witness ==
  /\ FitDone /\ args.mode = "contain" /\ ValidTarget
  /\ fit.outcome = "returned"
  /\ fit.new_h < target[2]
  /\ (target[2] - fit.new_h) % 2 = 1

\* C7: in 'cover' mode, with excess e = scaled size - target size on an axis,
\* the crop discards floor(e / 2) on the left/top and e - floor(e / 2) on the
\* right/bottom: the same on both sides when e is even, one pixel more on the
\* right/bottom when e is odd.
C7_CoverCentering ==
  (FitDone /\ args.mode = "cover" /\ ValidTarget /\ fit.outcome = "returned") =>
    LET ex == fit.new_w - target[1]
        ey == fit.new_h - target[2]
        cutLeft == -fit.image.px
        cutTop == -fit.image.py
        cutRight == fit.image.px + fit.image.rw - fit.image.w
        cutBottom == fit.image.py + fit.image.rh - fit.image.h
    IN  /\ cutLeft + cutLeft <= ex /\ ex <= cutLeft + cutLeft + 1
        /\ cutTop + cutTop <= ey /\ ey <= cutTop + cutTop + 1
        /\ cutRight = ex - cutLeft
        /\ cutBottom = ey - cutTop
        /\ ex % 2 = 0 => cutRight = cutLeft
        /\ ex % 2 = 1 => cutRight = cutLeft + 1
        /\ ey % 2 = 0 => cutBottom = cutTop
        /\ ey % 2 = 1 => cutBottom = cutTop + 1

C7_Witness ==
  /\ FitDone /\ args.mode = "cover" /\ ValidTarget
  /\ fit.outcome = "returned"
  /\ (fit.new_w - target[1]) % 2 = 1
  /\ -fit.image.px >= 1

\* C10: for every source and target of at least 1 x 1 the rounded scaled size
\* is at least 1 on both axes in both modes, so the resize step is never
\* asked for an empty image.
C10_ScaledSizePositive ==
  (FitDone /\ ValidMode /\ ValidTarget) =>
    /\ fit.new_w >= 1
    /\ fit.new_h >= 1
    /\ fit.outcome # "ResizeError"

(***************************************************************************)
(* Properties of the two scripts, checked under Spec.                      *)
(***************************************************************************)
MaxProbe == 46

IsMain == args.script = "tile_to_A4_2x2"

AllTilesCut == Len(tiles) = GridRows * GridCols

RectEmpty(r) == r.x0 >= r.x1 \/ r.y0 >= r.y1

RectArea(r) == IF RectEmpty(r) THEN 0 ELSE (r.x1 - r.x0) * (r.y1 - r.y0)

RECURSIVE SumAreas(_, _)
SumAreas(ts, n) == IF n = 0 THEN 0 ELSE RectArea(ts[n].box) + SumAreas(ts, n - 1)

\* The coordinates examined along an axis of length n cut into cells of
\* length c: all of them on a small poster, those next to the cell borders on
\* a large one.
Probe(n, c) ==
  IF n <= MaxProbe THEN 0 .. n - 1
  ELSE {0, 1, c - 2, c - 1, c, c + 1, n - 2, n - 1} \cap (0 .. n - 1)

\* C2: once the 2 x 2 grid is cut there are exactly rows x columns = 4 tiles,
\* tile (row, col) is the rectangle [col*cell_w, (col+1)*cell_w) x
\* [row*cell_h, (row+1)*cell_h), all tiles have the size of the cell, no
\* poster pixel is in two tiles, every poster pixel is in one, and pasting
\* the tiles back at their offsets gives the poster pixel for pixel.
C2_TilesPartitionPoster ==
  (AllTilesCut \/ pc \in {"save", "readme", "print", "done"}) =>
    LET cw == a4[1]
        ch == a4[2]
        idx == 1 .. Len(tiles)
    IN  /\ Len(tiles) = 4
        /\ {<<tiles[k].row, tiles[k].col>> : k \in idx}
             = (0 .. GridRows - 1) \X (0 .. GridCols - 1)
        /\ \A k \in idx :
             LET t == tiles[k]
             IN  /\ t.box = Rect(t.col * cw, t.row * ch, (t.col + 1) * cw, (t.row + 1) * ch)
                 /\ t.image.w = cw
                 /\ t.image.h = ch
                 /\ Intersect(t.box, Rect(0, 0, poster.w, poster.h)) = t.box
        /\ \A j \in idx, k \in idx :
             j # k => RectEmpty(Intersect(tiles[j].box, tiles[k].box))
        /\ SumAreas(tiles, Len(tiles)) = poster.w * poster.h
        /\ \A x \in Probe(poster.w, cw), y \in Probe(poster.h, ch) :
             LET covering == {k \in idx : InRect(tiles[k].box, x, y)}
             IN  /\ Cardinality(covering) = 1
                 /\ \A k \in covering :
                      PixelAt(tiles[k].image, x - tiles[k].box.x0, y - tiles[k].box.y0)
                        = PixelAt(poster, x, y)

C2_Witness ==
  /\ IsMain /\ AllTilesCut /\ args.mode = "contain"
  /\ poster.w = 16 /\ poster.h = 24
  /\ \E k \in 1 .. Len(tiles) :
       /\ tiles[k].row = 1 /\ tiles[k].col = 0
       /\ PixelAt(tiles[k].image, 0, 0) = <<"bg", 0, 0>>
       /\ PixelAt(tiles[k].image, 7, 0)[1] = "src"

\* n / d rounded to the nearest integer is c
Nearest(c, n, d) == 2 * Abs(c * d - n) <= d

\* C8: for every dpi >= 1 the cell is (round(210 * dpi / 25.4),
\* round(297 * dpi / 25.4)) whatever the source, the poster size handed to
\* the fitter is exactly twice the cell on each axis, so it divides by the
\* grid with no remainder; at dpi = 300 the cell and each tile is 2480 x 3508.
C8_CellAndPosterSize ==
  (IsMain /\ args.dpi >= 1
     /\ (pc \in {"open", "fit", "slice", "save", "readme", "print", "done"}
           \/ a4 # <<0, 0>>)) =>
    /\ Nearest(a4[1], 210 * 10 * args.dpi, 254)
    /\ Nearest(a4[2], 297 * 10 * args.dpi, 254)
    /\ target = <<2 * a4[1], 2 * a4[2]>>
    /\ target[1] % GridCols = 0 /\ target[1] \div GridCols = a4[1]
    /\ target[2] % GridRows = 0 /\ target[2] \div GridRows = a4[2]
    /\ fit.outcome = "returned" => (poster.w = target[1] /\ poster.h = target[2])
    /\ \A k \in 1 .. Len(tiles) :
         tiles[k].image.w = a4[1] /\ tiles[k].image.h = a4[2]
    /\ args.dpi = 300 =>
         /\ a4 = <<2480, 3508>>
         /\ \A k \in 1 .. Len(tiles) :
              tiles[k].image.w = 2480 /\ tiles[k].image.h = 3508

C8_Witness ==
  /\ IsMain /\ args.dpi = 300 /\ args.mode = "cover"
  /\ img.w = 1000 /\ img.h = 1500
  /\ AllTilesCut
  /\ tiles[4].image.w = 2480 /\ tiles[4].image.h = 3508

IsPrefix(s, t) == Len(s) <= Len(t) /\ \A i \in 1 .. Len(s) : s[i] = t[i]

\* the order of the output files: row by row, PNG before PDF, README last
ExportOrder(prefix) ==
  << prefix \o "_r1c1.png", prefix \o "_r1c1.pdf",
     prefix \o "_r1c2.png", prefix \o "_r1c2.pdf",
     prefix \o "_r2c1.png", prefix \o "_r2c1.pdf",
     prefix \o "_r2c2.png", prefix \o "_r2c2.pdf",
     "README.txt" >>

Written == {files[i] : i \in 1 .. Len(files)}

C9_PrefixOfOrder ==
  IsMain =>
    LET order == ExportOrder(args.prefix)
        cells == (0 .. GridRows - 1) \X (0 .. GridCols - 1)
        exts == {".png", ".pdf"}
    IN  /\ IsPrefix(files, order)
        /\ Cardinality(Written) = Len(files)
        /\ \A c \in cells, d \in cells, e \in exts, f \in exts :
             c # d => TileName(args.prefix, c[1], c[2], e)
                        # TileName(args.prefix, d[1], d[2], f)
        /\ "README.txt" \in Written =>
             /\ \A i \in 1 .. 8 : order[i] \in Written
             /\ parts \subseteq {"README.txt"}
        /\ pc \in {"print", "done"} => files = order

\* C9: main writes its files in a fixed row-major order: at every point of a
\* run, also when a save fails and the run ends, the files written so far are
\* a prefix of r1c1.png, r1c1.pdf, r1c2.png, r1c2.pdf, r2c1.png, r2c1.pdf,
\* r2c2.png, r2c2.pdf (with the chosen prefix), README.txt; cells never share
\* a name, written files are never removed, and README.txt is there only
\* after all eight tile files.
C9_ExportOrder ==
  /\ [] C9_PrefixOfOrder
  /\ [][IsMain => IsPrefix(files, files')]_vars

C9_Witness ==
  /\ IsMain /\ pc = "aborted"
  /\ Len(files) = 5
  /\ files[5] \in parts
  /\ files[4] = args.prefix \o "_r1c2.pdf"

====
